---- MODULE Spec2Model ----
(***************************************************************************)
(* A model of Parce_PythonExam.py: the Account entity, the in-memory       *)
(* AccountRepository, the CreateAccount and GenerateAccountStatement use   *)
(* cases, and the console driver main().                                   *)
(*                                                                         *)
(* Spec     drives the classes directly, one method call per step, with    *)
(*          arbitrary arguments, the way a unit test would.                *)
(* SpecCLI  is main(): one step per iteration of its input loops.          *)
(*                                                                         *)
(* Amounts are Python floats (main() passes float(input(...))).  A float   *)
(* is modelled as a record: a finite value that is a small integer, on     *)
(* which float arithmetic is exact, or one of the IEEE-754 special values  *)
(* float() also parses: inf, -inf and nan.                                 *)
(***************************************************************************)
EXTENDS Integers, Sequences, FiniteSets, TLC

VARIABLES
    accounts,   \* AccountRepository.accounts: the list of Account objects
    ledger,     \* history variable: the deposit/withdraw calls that returned
    result,     \* the last method call: its arguments and its outcome
    pc,         \* main(): where the driver waits for input
    account,    \* main(): the local `account` (index of the object in accounts)
    input,      \* main(): the lines the last loop iteration read
    output      \* main(): what the last loop iteration printed

\* The locals and the console of main().
driver == <<pc, account, input, output>>

vars == <<accounts, ledger, result, pc, account, input, output>>

(***************************************************************************)
(* Bounds of the model.                                                    *)
(***************************************************************************)
MaxAccounts == 2
MaxLedger == 2

(***************************************************************************)
(* Python floats.                                                          *)
(***************************************************************************)
Fin(n) == [k |-> "fin", v |-> n]
PosInf == [k |-> "inf", v |-> 1]
NegInf == [k |-> "inf", v |-> -1]
NaN == [k |-> "nan", v |-> 0]
Zero == Fin(0)

\* x + y on floats.
FAdd(x, y) ==
    CASE x.k = "nan" \/ y.k = "nan" -> NaN
      [] x.k = "inf" /\ y.k = "inf" -> IF x.v = y.v THEN x ELSE NaN
      [] x.k = "inf" -> x
      [] y.k = "inf" -> y
      [] OTHER -> Fin(x.v + y.v)

\* x - y on floats.
FSub(x, y) ==
    CASE x.k = "nan" \/ y.k = "nan" -> NaN
      [] x.k = "inf" /\ y.k = "inf" -> IF x.v # y.v THEN x ELSE NaN
      [] x.k = "inf" -> x
      [] y.k = "inf" -> IF y.v = 1 THEN NegInf ELSE PosInf
      [] OTHER -> Fin(x.v - y.v)

\* x <= y on floats: every comparison with nan is False.
FLe(x, y) ==
    /\ x.k # "nan"
    /\ y.k # "nan"
    /\ CASE x.k = "inf" /\ x.v = -1 -> TRUE
         [] y.k = "inf" /\ y.v = 1 -> TRUE
         [] x.k = "fin" /\ y.k = "fin" -> x.v <= y.v
         [] OTHER -> FALSE

\* x > y on floats: every comparison with nan is False.
FGt(x, y) ==
    /\ x.k # "nan"
    /\ y.k # "nan"
    /\ ~FLe(x, y)

\* x == y on floats: nan equals nothing, itself included.
FEq(x, y) ==
    /\ x.k # "nan"
    /\ y.k # "nan"
    /\ x = y

\* f"{x}" of a float: repr, which writes an integral value with ".0".
FmtFloat(x) ==
    CASE x.k = "nan" -> "nan"
      [] x.k = "inf" -> IF x.v = 1 THEN "inf" ELSE "-inf"
      [] OTHER -> ToString(x.v) \o ".0"

(***************************************************************************)
(* Failures.  The source raises ValueError everywhere; the message tells   *)
(* the kind: InvalidAmount, InsufficientFunds, AccountNotFound.            *)
(***************************************************************************)
NoError == ""
DepositInvalidAmount == "Deposit amount must be positive."
WithdrawInvalidAmount == "Withdrawal amount must be positive."
InsufficientFunds == "Insufficient funds."
AccountNotFound == "Account not found."

\* What a method call hands back: the exception raised (NoError when it
\* returned), the value returned, and the receiver after the call.
Outcome(raised, ret, obj) == [raised |-> raised, ret |-> ret, obj |-> obj]

None == <<>>

(***************************************************************************)
(* class Account                                                           *)
(***************************************************************************)
Account(account_id, customer_id, account_number) ==
    [account_id |-> account_id,
     customer_id |-> customer_id,
     account_number |-> account_number,
     balance |-> Zero,
     transaction_history |-> <<>>]

\* deposit with the entry put in front of the history instead of at its end.
deposit_InsertsFirst(self, amount) ==
    IF FLe(amount, Zero)
    THEN Outcome(DepositInvalidAmount, None, self)
    ELSE LET new == [self EXCEPT
                        !.balance = FAdd(@, amount),
                        !.transaction_history =
                            <<"Deposited: " \o FmtFloat(amount)>> \o @]
         IN Outcome(NoError, new.balance, new)

deposit(self, amount) ==
    IF FLe(amount, Zero)
    THEN Outcome(DepositInvalidAmount, None, self)
    ELSE LET new == [self EXCEPT
                        !.balance = FAdd(@, amount),
                        !.transaction_history =
                            Append(@, "Deposited: " \o FmtFloat(amount))]
         IN Outcome(NoError, new.balance, new)

\* withdraw with `amount < 0` for `amount <= 0`: a withdrawal of 0 goes through.
withdraw_ZeroAccepted(self, amount) ==
    IF FLe(amount, Zero) /\ amount # Zero
    THEN Outcome(WithdrawInvalidAmount, None, self)
    ELSE IF FGt(amount, self.balance)
    THEN Outcome(InsufficientFunds, None, self)
    ELSE LET new == [self EXCEPT
                        !.balance = FSub(@, amount),
                        !.transaction_history =
                            Append(@, "Withdraw: " \o FmtFloat(amount))]
         IN Outcome(NoError, new.balance, new)

\* withdraw without the check of the funds.
withdraw_NoFundsCheck(self, amount) ==
    IF FLe(amount, Zero)
    THEN Outcome(WithdrawInvalidAmount, None, self)
    ELSE LET new == [self EXCEPT
                        !.balance = FSub(@, amount),
                        !.transaction_history =
                            Append(@, "Withdraw: " \o FmtFloat(amount))]
         IN Outcome(NoError, new.balance, new)

withdraw(self, amount) ==
    IF FLe(amount, Zero)
    THEN Outcome(WithdrawInvalidAmount, None, self)
    ELSE IF FGt(amount, self.balance)
    THEN Outcome(InsufficientFunds, None, self)
    ELSE LET new == [self EXCEPT
                        !.balance = FSub(@, amount),
                        !.transaction_history =
                            Append(@, "Withdraw: " \o FmtFloat(amount))]
         IN Outcome(NoError, new.balance, new)

get_balance(self) == self.balance

get_transaction_history(self) == self.transaction_history

(***************************************************************************)
(* class AccountRepository.  An Account object is referred to by its       *)
(* position in the list: nothing is ever removed or moved, so the position *)
(* is the object's identity.  0 stands for no object.                      *)
(***************************************************************************)
save_account(accs, acct) == Append(accs, acct)

RECURSIVE find_scan(_, _, _)
\* The for loop of find_account_by_id, from position i on.
find_scan(accs, account_id, i) ==
    IF i > Len(accs) THEN 0
    ELSE IF accs[i].account_id = account_id THEN i
    ELSE find_scan(accs, account_id, i + 1)

\* find_account_by_id falling off the loop: it returns None, raising nothing.
find_account_by_id_ReturnsNone(accs, account_id) ==
    Outcome(NoError, find_scan(accs, account_id, 1), accs)

find_account_by_id(accs, account_id) ==
    LET i == find_scan(accs, account_id, 1)
    IN IF i = 0
       THEN Outcome(AccountNotFound, 0, accs)
       ELSE Outcome(NoError, i, accs)

RECURSIVE customer_scan(_, _, _)
\* The list comprehension of find_accounts_by_customer_id, from position i on.
customer_scan(accs, customer_id, i) ==
    IF i > Len(accs) THEN <<>>
    ELSE IF accs[i].customer_id = customer_id
    THEN <<i>> \o customer_scan(accs, customer_id, i + 1)
    ELSE customer_scan(accs, customer_id, i + 1)

find_accounts_by_customer_id(accs, customer_id) ==
    Outcome(NoError, customer_scan(accs, customer_id, 1), accs)

(***************************************************************************)
(* class CreateAccount                                                     *)
(***************************************************************************)
AccountNumberWidth == 5

RECURSIVE ZeroPad(_, _)
\* The 0-flag of a format spec: zeros on the left up to the width.
ZeroPad(digits, width) ==
    IF Len(digits) >= width THEN digits ELSE ZeroPad("0" \o digits, width)

\* f"ACC{account_id:05d}"
AccountNumber(account_id) ==
    "ACC" \o ZeroPad(ToString(account_id), AccountNumberWidth)

\* create_account with the id taken from the size alone: ids from 0.
create_account_IdFromZero(accs, customer_id, name, email, phone_number) ==
    LET account_id == Len(accs)
        new_account == Account(account_id, customer_id, AccountNumber(account_id))
        saved == save_account(accs, new_account)
    IN Outcome(NoError, Len(saved), saved)

create_account(accs, customer_id, name, email, phone_number) ==
    LET account_id == Len(accs) + 1
        new_account == Account(account_id, customer_id, AccountNumber(account_id))
        saved == save_account(accs, new_account)
    IN Outcome(NoError, Len(saved), saved)

(***************************************************************************)
(* class GenerateAccountStatement.  The statement is kept as the sequence  *)
(* of its lines, each of which the source ends with "\n".                  *)
(***************************************************************************)
RECURSIVE statement_loop(_, _, _)
\* The for loop over the history, from entry i on.
statement_loop(statement, history, i) ==
    IF i > Len(history) THEN statement
    ELSE statement_loop(Append(statement, "- " \o history[i]), history, i + 1)

\* generate_account_statement without the else branch: an empty history
\* prints nothing after the heading.
generate_account_statement_NoElse(accs, account_id) ==
    LET found == find_account_by_id(accs, account_id)
    IN IF found.raised # NoError
       THEN Outcome(found.raised, None, accs)
       ELSE LET acct == accs[found.ret]
                head == << "Account ID: " \o ToString(acct.account_id),
                           "Account Number: " \o acct.account_number,
                           "Current Balance: " \o FmtFloat(get_balance(acct)),
                           "Transaction History:" >>
            IN Outcome(NoError,
                       statement_loop(head, get_transaction_history(acct), 1),
                       accs)

generate_account_statement(accs, account_id) ==
    LET found == find_account_by_id(accs, account_id)
    IN IF found.raised # NoError
       THEN Outcome(found.raised, None, accs)
       ELSE LET acct == accs[found.ret]
                head == << "Account ID: " \o ToString(acct.account_id),
                           "Account Number: " \o acct.account_number,
                           "Current Balance: " \o FmtFloat(get_balance(acct)),
                           "Transaction History:" >>
            IN IF get_transaction_history(acct) # <<>>
               THEN Outcome(NoError,
                            statement_loop(head, get_transaction_history(acct), 1),
                            accs)
               ELSE Outcome(NoError,
                            Append(head, "No transactions made yet."),
                            accs)

(***************************************************************************)
(* The arguments the calls are tried with.                                 *)
(***************************************************************************)
Amounts == {Fin(-1), Fin(0), Fin(1), Fin(2), PosInf, NaN}
StatementAmounts == {Fin(1), Fin(2), NaN}
CustomerIds == {"c1", "c2"}
OneCustomer == {"c1"}
AccountIds == -1 .. (MaxAccounts + 1)

\* The record of a call: the method, its arguments, what it raised and what
\* it returned.  idx is the receiver Account (or the account_id argument of
\* a repository or statement call).
Call(op, idx, cust, amount, out) ==
    [op |-> op, idx |-> idx, cust |-> cust, amount |-> amount,
     raised |-> out.raised, ret |-> out.ret]

NoCall == [op |-> "none", idx |-> 0, cust |-> "", amount |-> Zero,
           raised |-> NoError, ret |-> None]

\* transaction_history as a class attribute: one list, shared by every
\* Account.
Store_SharedHistory(accs, i, obj) ==
    [j \in 1 .. Len(accs) |->
        IF j = i THEN obj
        ELSE [accs[j] EXCEPT !.transaction_history = obj.transaction_history]]

\* accounts after a method call on the object at position i: the call
\* assigns to self only.
Store(accs, i, obj) == [accs EXCEPT ![i] = obj]

\* The ledger after a deposit or withdraw call: calls that raised are not
\* entered.
Entered(led, op, i, amount, out) ==
    IF out.raised = NoError
    THEN Append(led, [op |-> op, idx |-> i, amount |-> amount])
    ELSE led

Init ==
    /\ accounts = <<>>
    /\ ledger = <<>>
    /\ result = NoCall
    /\ pc = "top"
    /\ account = 0
    /\ input = <<>>
    /\ output = <<>>

(***************************************************************************)
(* One method call per step.                                               *)
(***************************************************************************)
Create(c) ==
    /\ Len(accounts) < MaxAccounts
    /\ LET out == create_account(accounts, c, "name", "email", "phone")
       IN /\ accounts' = out.obj
          /\ result' = Call("create_account", out.ret, c, Zero, out)
    /\ UNCHANGED <<ledger, driver>>

\* Nothing a step of Spec does reads customer_id: one customer stands for all.
CreateAccountCall ==
    \E c \in OneCustomer : Create(c)

Deposit(i, amount) ==
    /\ LET out == deposit(accounts[i], amount)
       IN /\ Len(Entered(ledger, "deposit", i, amount, out)) <= MaxLedger
          /\ accounts' = Store(accounts, i, out.obj)
          /\ ledger' = Entered(ledger, "deposit", i, amount, out)
          /\ result' = Call("deposit", i, "", amount, out)
    /\ UNCHANGED driver

Withdraw(i, amount) ==
    /\ LET out == withdraw(accounts[i], amount)
       IN /\ Len(Entered(ledger, "withdraw", i, amount, out)) <= MaxLedger
          /\ accounts' = Store(accounts, i, out.obj)
          /\ ledger' = Entered(ledger, "withdraw", i, amount, out)
          /\ result' = Call("withdraw", i, "", amount, out)
    /\ UNCHANGED driver

DepositCall ==
    \E i \in 1 .. Len(accounts), amount \in Amounts : Deposit(i, amount)

WithdrawCall ==
    \E i \in 1 .. Len(accounts), amount \in Amounts : Withdraw(i, amount)

GetBalanceCall ==
    \E i \in 1 .. Len(accounts) :
        /\ result' = Call("get_balance", i, "", Zero,
                          Outcome(NoError, get_balance(accounts[i]), accounts[i]))
        /\ UNCHANGED <<accounts, ledger, driver>>

FindByIdCall ==
    \E id \in AccountIds :
        /\ LET out == find_account_by_id(accounts, id)
           IN /\ accounts' = out.obj
              /\ result' = Call("find_account_by_id", id, "", Zero, out)
        /\ UNCHANGED <<ledger, driver>>

Next ==
    \/ CreateAccountCall
    \/ DepositCall
    \/ WithdrawCall
    \/ GetBalanceCall
    \/ FindByIdCall

Spec == Init /\ [][Next]_vars

(***************************************************************************)
(* SpecStatement: the calls that read the repository, over accounts whose  *)
(* histories deposits and withdrawals have filled.                         *)
(***************************************************************************)
StatementCreate ==
    \E c \in CustomerIds : Create(c)

StatementDeposit ==
    \E i \in 1 .. Len(accounts), amount \in StatementAmounts : Deposit(i, amount)

StatementWithdraw ==
    \E i \in 1 .. Len(accounts), amount \in StatementAmounts : Withdraw(i, amount)

FindByCustomerCall ==
    \E c \in CustomerIds :
        /\ LET out == find_accounts_by_customer_id(accounts, c)
           IN /\ accounts' = out.obj
              /\ result' = Call("find_accounts_by_customer_id", 0, c, Zero, out)
        /\ UNCHANGED <<ledger, driver>>

StatementCall ==
    \E id \in AccountIds :
        /\ LET out == generate_account_statement(accounts, id)
           IN /\ accounts' = out.obj
              /\ result' = Call("generate_account_statement", id, "", Zero, out)
        /\ UNCHANGED <<ledger, driver>>

NextStatement ==
    \/ StatementCreate
    \/ StatementDeposit
    \/ StatementWithdraw
    \/ FindByCustomerCall
    \/ StatementCall

SpecStatement == Init /\ [][NextStatement]_vars

(***************************************************************************)
(* SpecCLI: main().  One step is one iteration of the loop the driver is   *)
(* in: the top-level loop (pc = "top"), the transaction loop of the create *)
(* branch ("sub_create") or that of the login branch ("sub_login").  The   *)
(* process has ended after the top-level break ("exited") or when a        *)
(* ValueError left main() ("crashed").                                     *)
(***************************************************************************)
ActionTexts == {"create", "login", "exit", " Create ", "EXIT", "menu"}
TransactionTexts ==
    {"deposit", "withdraw", "balance", "statement", "exit", " Deposit ", "menu"}
AmountTexts == {"-1", "0", "1", "2", "inf", "nan", "abc"}
IdTexts == {"-1", "0", "1", "2", "3", "abc"}

SubMenus == {"sub_create", "sub_login"}

\* str.strip().lower() on the lines above.
StripLower(text) ==
    CASE text = " Create " -> "create"
      [] text = "EXIT" -> "exit"
      [] text = " Deposit " -> "deposit"
      [] OTHER -> text

\* float(text) on the lines above: inf and nan are float literals, abc is
\* none and raises ValueError.
ParseFloat(text) ==
    CASE text = "-1" -> Outcome(NoError, Fin(-1), text)
      [] text = "0" -> Outcome(NoError, Fin(0), text)
      [] text = "1" -> Outcome(NoError, Fin(1), text)
      [] text = "2" -> Outcome(NoError, Fin(2), text)
      [] text = "inf" -> Outcome(NoError, PosInf, text)
      [] text = "nan" -> Outcome(NoError, NaN, text)
      [] OTHER -> Outcome("could not convert string to float: '" \o text \o "'",
                          None, text)

\* int(text) on the lines above.
ParseInt(text) ==
    CASE text = "-1" -> Outcome(NoError, -1, text)
      [] text = "0" -> Outcome(NoError, 0, text)
      [] text = "1" -> Outcome(NoError, 1, text)
      [] text = "2" -> Outcome(NoError, 2, text)
      [] text = "3" -> Outcome(NoError, 3, text)
      [] OTHER -> Outcome("invalid literal for int() with base 10: '" \o text \o "'",
                          0, text)

\* A ValueError no handler of main() encloses: the traceback, and the
\* process ends.
Uncaught(message) ==
    /\ pc' = "crashed"
    /\ output' = <<"ValueError: " \o message>>
    /\ UNCHANGED account

\* A ValueError raised in a transaction loop outside the try of its deposit
\* or withdraw branch.  The loop of the login branch lies inside the try of
\* line 164, whose handler prints the message and falls back to the
\* top-level loop; the loop of the create branch lies inside no try.
Escaped(message) ==
    IF pc = "sub_login"
    THEN /\ pc' = "top"
         /\ output' = <<message>>
         /\ UNCHANGED account
    ELSE Uncaught(message)

TopCreate ==
    \E text \in ActionTexts, c \in CustomerIds :
        /\ pc = "top"
        /\ StripLower(text) = "create"
        /\ Len(accounts) < MaxAccounts
        /\ input' = <<text, c, "name", "email", "phone">>
        /\ LET out == create_account(accounts, c, "name", "email", "phone")
               new == out.obj[out.ret]
           IN /\ accounts' = out.obj
              /\ result' = Call("create_account", out.ret, c, Zero, out)
              /\ account' = out.ret
              /\ output' = <<"Account created: " \o new.account_number
                             \o " with initial balance "
                             \o FmtFloat(get_balance(new))>>
        /\ pc' = "sub_create"
        /\ UNCHANGED ledger

TopLogin ==
    \E text \in ActionTexts, id \in IdTexts :
        /\ pc = "top"
        /\ StripLower(text) = "login"
        /\ input' = <<text, id>>
        /\ LET parsed == ParseInt(id)
               found == find_account_by_id(accounts, parsed.ret)
           IN IF parsed.raised # NoError
              THEN /\ Uncaught(parsed.raised)
                   /\ UNCHANGED result
              ELSE /\ result' = Call("find_account_by_id", parsed.ret, "", Zero, found)
                   /\ IF found.raised # NoError
                      THEN /\ output' = <<found.raised>>
                           /\ UNCHANGED <<pc, account>>
                      ELSE /\ account' = found.ret
                           /\ output' =
                                <<"Logged in successfully. Current balance for account "
                                  \o accounts[found.ret].account_number \o ": "
                                  \o FmtFloat(get_balance(accounts[found.ret]))>>
                           /\ pc' = "sub_login"
        /\ UNCHANGED <<accounts, ledger>>

TopExit ==
    \E text \in ActionTexts :
        /\ pc = "top"
        /\ StripLower(text) = "exit"
        /\ input' = <<text>>
        /\ output' = <<"Exiting the program.">>
        /\ pc' = "exited"
        /\ UNCHANGED <<accounts, ledger, result, account>>

TopInvalid ==
    \E text \in ActionTexts :
        /\ pc = "top"
        /\ StripLower(text) \notin {"create", "login", "exit"}
        /\ input' = <<text>>
        /\ output' = <<"Invalid input. Please enter 'create', 'login', or 'exit'.">>
        /\ UNCHANGED <<accounts, ledger, result, pc, account>>

SubDeposit ==
    \E text \in TransactionTexts, amount \in AmountTexts :
        /\ pc \in SubMenus
        /\ StripLower(text) = "deposit"
        /\ input' = <<text, amount>>
        /\ LET parsed == ParseFloat(amount)
               out == deposit(accounts[account], parsed.ret)
           IN IF parsed.raised # NoError
              THEN /\ Escaped(parsed.raised)
                   /\ UNCHANGED <<accounts, ledger, result>>
              ELSE /\ Len(Entered(ledger, "deposit", account, parsed.ret, out))
                        <= MaxLedger
                   /\ accounts' = Store(accounts, account, out.obj)
                   /\ ledger' = Entered(ledger, "deposit", account, parsed.ret, out)
                   /\ result' = Call("deposit", account, "", parsed.ret, out)
                   /\ output' = IF out.raised # NoError
                                THEN <<out.raised>>
                                ELSE <<"New balance after deposit: "
                                       \o FmtFloat(out.ret)>>
                   /\ UNCHANGED <<pc, account>>

SubWithdraw ==
    \E text \in TransactionTexts, amount \in AmountTexts :
        /\ pc \in SubMenus
        /\ StripLower(text) = "withdraw"
        /\ input' = <<text, amount>>
        /\ LET parsed == ParseFloat(amount)
               out == withdraw(accounts[account], parsed.ret)
           IN IF parsed.raised # NoError
              THEN /\ Escaped(parsed.raised)
                   /\ UNCHANGED <<accounts, ledger, result>>
              ELSE /\ Len(Entered(ledger, "withdraw", account, parsed.ret, out))
                        <= MaxLedger
                   /\ accounts' = Store(accounts, account, out.obj)
                   /\ ledger' = Entered(ledger, "withdraw", account, parsed.ret, out)
                   /\ result' = Call("withdraw", account, "", parsed.ret, out)
                   /\ output' = IF out.raised # NoError
                                THEN <<out.raised>>
                                ELSE <<"New balance after withdrawal: "
                                       \o FmtFloat(out.ret)>>
                   /\ UNCHANGED <<pc, account>>

SubBalance ==
    \E text \in TransactionTexts :
        /\ pc \in SubMenus
        /\ StripLower(text) = "balance"
        /\ input' = <<text>>
        /\ output' = <<"Current balance: " \o FmtFloat(get_balance(accounts[account]))>>
        /\ result' = Call("get_balance", account, "", Zero,
                          Outcome(NoError, get_balance(accounts[account]),
                                  accounts[account]))
        /\ UNCHANGED <<accounts, ledger, pc, account>>

SubStatement ==
    \E text \in TransactionTexts :
        /\ pc \in SubMenus
        /\ StripLower(text) = "statement"
        /\ input' = <<text>>
        /\ LET id == accounts[account].account_id
               out == generate_account_statement(accounts, id)
           IN /\ result' = Call("generate_account_statement", id, "", Zero, out)
              /\ IF out.raised # NoError
                 THEN Escaped(out.raised)
                 ELSE /\ output' = out.ret \o <<"">>
                      /\ UNCHANGED <<pc, account>>
        /\ UNCHANGED <<accounts, ledger>>

SubExit ==
    \E text \in TransactionTexts :
        /\ pc \in SubMenus
        /\ StripLower(text) = "exit"
        /\ input' = <<text>>
        /\ output' = <<"Exiting transaction menu.">>
        /\ pc' = "top"
        /\ UNCHANGED <<accounts, ledger, result, account>>

SubInvalid ==
    \E text \in TransactionTexts :
        /\ pc \in SubMenus
        /\ StripLower(text) \notin {"deposit", "withdraw", "balance", "statement", "exit"}
        /\ input' = <<text>>
        /\ output' = <<"Invalid input. Please enter 'deposit', 'withdraw', "
                       \o "'balance', 'statement', or 'exit'.">>
        /\ UNCHANGED <<accounts, ledger, result, pc, account>>

NextCLI ==
    \/ TopCreate
    \/ TopLogin
    \/ TopExit
    \/ TopInvalid
    \/ SubDeposit
    \/ SubWithdraw
    \/ SubBalance
    \/ SubStatement
    \/ SubExit
    \/ SubInvalid

SpecCLI == Init /\ [][NextCLI]_vars

(***************************************************************************)
(* Properties.                                                             *)
(***************************************************************************)
Receivers == 1 .. Len(accounts)

Moved(call) == call.op \in {"deposit", "withdraw"}

Carries(id) == {j \in Receivers : accounts[j].account_id = id}

RECURSIVE LedgerSum(_, _, _, _)
\* The sum of the amounts of the op calls on account i among the first n
\* entries of the ledger.
LedgerSum(led, i, op, n) ==
    IF n = 0 THEN Zero
    ELSE IF led[n].idx = i /\ led[n].op = op
    THEN FAdd(LedgerSum(led, i, op, n - 1), led[n].amount)
    ELSE LedgerSum(led, i, op, n - 1)

LedgerBalance(i) ==
    FSub(FAdd(Zero, LedgerSum(ledger, i, "deposit", Len(ledger))),
         LedgerSum(ledger, i, "withdraw", Len(ledger)))

RECURSIVE LedgerHistory(_, _, _)
\* One entry per call on account i among the first n entries of the ledger,
\* in call order.
LedgerHistory(led, i, n) ==
    IF n = 0 THEN <<>>
    ELSE IF led[n].idx = i
    THEN Append(LedgerHistory(led, i, n - 1),
                (IF led[n].op = "deposit" THEN "Deposited: " ELSE "Withdraw: ")
                \o FmtFloat(led[n].amount))
    ELSE LedgerHistory(led, i, n - 1)

IsPrefix(s, t) == Len(s) <= Len(t) /\ SubSeq(t, 1, Len(s)) = s

\* C1: in every reachable state the balance of every account is >= 0.
C1_BalanceNonNegative ==
    \A i \in Receivers : FLe(Zero, accounts[i].balance)

\* C2: the balance of every account equals 0 plus the sum of its deposits
\* that succeeded minus the sum of its withdrawals that succeeded, and a
\* deposit or withdraw that succeeded returned that balance, which is what
\* get_balance returns.
C2_BalanceIsLedgerSum ==
    /\ \A i \in Receivers : FEq(accounts[i].balance, LedgerBalance(i))
    /\ (Moved(result) /\ result.raised = NoError)
        => /\ FEq(result.ret, LedgerBalance(result.idx))
           /\ FEq(result.ret, get_balance(accounts[result.idx]))

\* Beside C1: no balance is below 0; what C1 misses is the balance nan.
BalanceNeverBelowZero ==
    \A i \in Receivers : ~FGt(Zero, accounts[i].balance)

\* Beside C1 and C2: both hold as long as every amount that went through
\* was finite.
FiniteLedgerBalances ==
    (\A n \in 1 .. Len(ledger) : ledger[n].amount.k = "fin")
        => (C1_BalanceNonNegative /\ C2_BalanceIsLedgerSum)

C3_Step ==
    (Moved(result') /\ FLe(result'.amount, Zero))
        => /\ result'.raised = (IF result'.op = "deposit"
                                THEN DepositInvalidAmount
                                ELSE WithdrawInvalidAmount)
           /\ accounts'[result'.idx].balance = accounts[result'.idx].balance
           /\ accounts'[result'.idx].transaction_history
                = accounts[result'.idx].transaction_history

\* C3: a deposit or a withdraw of an amount <= 0 fails with InvalidAmount,
\* whatever the balance, and leaves the balance and the history as they were.
C3_NonPositiveAmountRejected == [][C3_Step]_vars

\* A withdrawal of an amount <= 0 was refused on an account that holds funds.
C3_Witness ==
    /\ result.op = "withdraw"
    /\ FLe(result.amount, Zero)
    /\ result.raised = WithdrawInvalidAmount
    /\ FGt(accounts[result.idx].balance, Zero)

C4_Step ==
    (result'.op = "withdraw" /\ FGt(result'.amount, accounts[result'.idx].balance))
        => /\ result'.raised = InsufficientFunds
           /\ accounts'[result'.idx].balance = accounts[result'.idx].balance
           /\ accounts'[result'.idx].transaction_history
                = accounts[result'.idx].transaction_history

\* C4: a withdraw of more than the current balance fails with
\* InsufficientFunds and leaves the balance and the history as they were.
C4_OverdraftRejected == [][C4_Step]_vars

\* A withdrawal was refused on an account nothing was ever paid into: its
\* balance is still 0.
C4_Witness ==
    /\ result.op = "withdraw"
    /\ result.raised = InsufficientFunds
    /\ FGt(result.amount, Zero)
    /\ accounts[result.idx].balance = Zero
    /\ accounts[result.idx].transaction_history = <<>>

\* "ACC" and k in five digits, for the k of fewer than six digits.
FiveDigitNumber(k) ==
    "ACC" \o (CASE k < 10 -> "0000"
                [] k >= 10 /\ k < 100 -> "000"
                [] k >= 100 /\ k < 1000 -> "00"
                [] k >= 1000 /\ k < 10000 -> "0"
                [] OTHER -> "") \o ToString(k)

\* Ids on both sides of every change in the number of digits.
NumberSamples == {1, 9, 10, 99, 100, 999, 1000, 9999, 10000, 99999}

\* C5: the k-th account created has id k and account number "ACC" + k in
\* five digits (as the format gives for every id of up to five digits), and
\* is created with balance 0 and an empty history; no two accounts share an
\* id or an account number.
C5_SequentialIds ==
    /\ \A k \in Receivers :
        /\ accounts[k].account_id = k
        /\ accounts[k].account_number = FiveDigitNumber(k)
    /\ \A j, k \in Receivers :
        j # k => /\ accounts[j].account_id # accounts[k].account_id
                 /\ accounts[j].account_number # accounts[k].account_number
    /\ \A k \in NumberSamples : AccountNumber(k) = FiveDigitNumber(k)
    /\ result.op = "create_account"
        => /\ result.ret = Len(accounts)
           /\ accounts[result.ret].balance = Zero
           /\ accounts[result.ret].transaction_history = <<>>

\* The second account was just created, after a deposit into the first.
C5_Witness ==
    /\ result.op = "create_account"
    /\ Len(accounts) = 2
    /\ accounts[1].transaction_history # <<>>

C6_Found ==
    result.op = "find_account_by_id"
        => IF Carries(result.idx) = {}
           THEN result.raised = AccountNotFound
           ELSE /\ result.raised = NoError
                /\ result.ret \in Carries(result.idx)

C6_Step ==
    result'.op = "find_account_by_id"
        => /\ accounts' = accounts
           /\ ledger' = ledger

\* C6: find_account_by_id fails with AccountNotFound for an id no saved
\* account carries and returns the account carrying the id otherwise; it
\* changes neither the repository nor an account.
C6_FindById == []C6_Found /\ [][C6_Step]_vars

\* A lookup failed in a repository that holds accounts, for the id after
\* the last one given out.
C6_Witness ==
    /\ result.op = "find_account_by_id"
    /\ result.raised = AccountNotFound
    /\ Len(accounts) >= 1
    /\ result.idx = Len(accounts) + 1

C7_Statement ==
    result.op = "generate_account_statement"
        => IF Carries(result.idx) = {}
           THEN result.raised = AccountNotFound
           ELSE LET acct == accounts[CHOOSE j \in Carries(result.idx) : TRUE]
                    history == acct.transaction_history
                    statement == result.ret
                IN /\ result.raised = NoError
                   /\ Len(statement) = 4 + (IF history = <<>> THEN 1 ELSE Len(history))
                   /\ statement[1] = "Account ID: " \o ToString(result.idx)
                   /\ statement[2] = "Account Number: " \o acct.account_number
                   /\ statement[3] = "Current Balance: " \o FmtFloat(acct.balance)
                   /\ statement[4] = "Transaction History:"
                   /\ history = <<>> => statement[5] = "No transactions made yet."
                   /\ \A n \in 1 .. Len(history) :
                        statement[4 + n] = "- " \o history[n]

C7_Step ==
    result'.op = "generate_account_statement"
        => /\ accounts' = accounts
           /\ ledger' = ledger

\* C7: the statement of an existing account is its id, its account number
\* and its balance, then "No transactions made yet." exactly when the
\* history is empty and otherwise "- " + entry for each entry, in order; for
\* an absent id the call fails with AccountNotFound; it changes nothing.
C7_StatementText == []C7_Statement /\ [][C7_Step]_vars

\* A statement was made of an account with two entries in its history.
C7_Witness ==
    /\ result.op = "generate_account_statement"
    /\ result.raised = NoError
    /\ \E j \in Carries(result.idx) : Len(accounts[j].transaction_history) = 2

C8_Step ==
    /\ pc' # "crashed"
    /\ pc' = "exited" => (pc = "top" /\ StripLower(input'[1]) = "exit")
    /\ (pc \in SubMenus /\ pc' # pc) => (pc' = "top" /\ StripLower(input'[1]) = "exit")

\* C8: no failure is fatal in main(): the process ends only by `exit` at
\* the top-level prompt, and a transaction loop is left only by its own
\* `exit`, to the top-level prompt; so after create as after login.
C8_NoFailureIsFatal == [][C8_Step]_vars

C9_History ==
    \A i \in Receivers :
        accounts[i].transaction_history = LedgerHistory(ledger, i, Len(ledger))

C9_Step ==
    /\ \A i \in Receivers :
        IsPrefix(accounts[i].transaction_history, accounts'[i].transaction_history)
    /\ result'.raised # NoError
        => \A i \in Receivers :
            accounts'[i].transaction_history = accounts[i].transaction_history

\* C9: the history of an account is one entry per deposit or withdraw that
\* succeeded on it, in call order; a failed call adds none, and the history
\* of an earlier state is a prefix of that of every later state.
C9_HistoryAppendOnly == []C9_History /\ [][C9_Step]_vars

\* A call failed on an account whose history holds two different entries.
C9_Witness ==
    /\ Moved(result)
    /\ result.raised # NoError
    /\ Len(accounts[result.idx].transaction_history) = 2
    /\ accounts[result.idx].transaction_history[1]
        # accounts[result.idx].transaction_history[2]

C10_Step ==
    /\ Len(accounts') >= Len(accounts)
    /\ \A j \in Receivers :
        /\ accounts'[j].account_id = accounts[j].account_id
        /\ accounts'[j].customer_id = accounts[j].customer_id
        /\ accounts'[j].account_number = accounts[j].account_number
    /\ Moved(result')
        => /\ Len(accounts') = Len(accounts)
           /\ \A j \in Receivers : j # result'.idx => accounts'[j] = accounts[j]
    /\ result'.op = "create_account"
        => /\ Len(accounts') = Len(accounts) + 1
           /\ \A j \in Receivers : accounts'[j] = accounts[j]
    /\ result'.op \in {"get_balance", "find_account_by_id"}
        => accounts' = accounts
    /\ \A j \in Receivers :
        find_account_by_id(accounts', accounts[j].account_id).ret = j

\* C10: a deposit or withdraw changes no other account and not the list;
\* create_account appends one account and changes none; nothing is removed,
\* so an id found once is found at the same account ever after.
C10_IsolationAndGrowth == [][C10_Step]_vars

\* A deposit went into the second account while the first had a history.
C10_Witness ==
    /\ result.op = "deposit"
    /\ result.raised = NoError
    /\ result.idx = 2
    /\ accounts[1].transaction_history # <<>>

====
